---- MODULE Spec2Model ----
(***************************************************************************)
(* Budget Planner (src/main3.py): the in-memory store, the data file, and   *)
(* the operations the menu loop dispatches to.                              *)
(*                                                                          *)
(* One run of main_menu(): load_store, then the menu loop; every mutating   *)
(* operation ends in save_store, which is modelled step by step because the *)
(* data file changes in the middle of it.                                   *)
(***************************************************************************)
EXTENDS Integers, Sequences, FiniteSets, TLC

VARIABLES
    store,        \* the dict main_menu holds: [next_id, transactions]
    disk,         \* the file DATA_FILE ("budget_data.json")
    corrupt,      \* the file DATA_FILE + ".corrupt"
    tmp,          \* the NamedTemporaryFile of the save_store call in progress
    pc,           \* position of the process
    caller,       \* who called the save_store in progress
    exc,          \* an exception is propagating out of the menu loop
    clock,        \* number of datetime.now() readings taken so far
    last,         \* history: the operation the menu dispatched last
    assignedIds,  \* history: the ids assigned by add_transaction, in order
    epochStart,   \* history: Len(assignedIds) at the last confirmed reset
    diskBefore,   \* history: the data file when the current save_store began
    saveResult,   \* history: outcome of the most recent save_store call
    shown         \* what the most recent list_transactions call printed

vars == <<store, disk, corrupt, tmp, pc, caller, exc, clock, last,
          assignedIds, epochStart, diskBefore, saveResult, shown>>

\* ----------------------------------------------------------------- bounds
\* datetime.now() is read at most MaxClock times in a run, so a run holds at
\* most MaxClock successful adds and updates.
MaxClock == 2

\* ------------------------------------------------------------ raw inputs
\* Lines the user can type at the prompts (what input() returns).
TypeInputs == {"", "income", "EXPENSE", "bogus"}
AmountInputs == {"", "5", "2", "0", "-5", "nan", "abc"}
ConfirmInputs == {"YES", " YES ", "yes"}
\* <<category, date, notes>> lines typed at the three free-text prompts.
FieldInputs ==
    { <<"", "", "">>,
      <<"Food", "2024-03-01", "memo">>,
      <<"Food", "2024-13-01", "">> }
\* Lines typed at an id prompt: text int() accepts as n, or text it rejects.
IdInputs ==
    { [digits |-> TRUE, n |-> k] : k \in 1..(MaxClock + 1) }
        \cup { [digits |-> FALSE, n |-> 0] }

\* datetime.today() formatted as %Y-%m-%d
Today == "2024-02-01"

\* ------------------------------------------------------- string helpers
\* str.strip() on the lines above
Strip(s) ==
    CASE s = " YES " -> "YES"
      [] OTHER -> s

\* str.lower() on the lines above
Lower(s) ==
    CASE s = "EXPENSE" -> "expense"
      [] s = "YES" -> "yes"
      [] OTHER -> s

\* -------------------------------------------------------------- floats
\* A Python float: a number, or nan (which compares false with everything).
Num(v) == [kind |-> "num", v |-> v]
NaN == [kind |-> "nan", v |-> 0]
ValueError == [kind |-> "err", v |-> 0]
NoAmount == [kind |-> "none", v |-> 0]

\* float(s)
ParseFloat(s) ==
    CASE s = "5" -> Num(5)
      [] s = "2" -> Num(2)
      [] s = "0" -> Num(0)
      [] s = "-5" -> Num(-5)
      [] s = "nan" -> NaN
      [] OTHER -> ValueError

\* x <= 0, x > 0, x < 0 on floats
FloatLe0(x) == x.kind = "num" /\ x.v <= 0
FloatGt0(x) == x.kind = "num" /\ x.v > 0
FloatLt0(x) == x.kind = "num" /\ x.v < 0

\* abs(x) and -x on floats
FloatAbs(x) == IF x.kind = "num" /\ x.v < 0 THEN Num(-x.v) ELSE x
FloatNeg(x) == IF x.kind = "num" THEN Num(-x.v) ELSE x

\* int(s) at an id prompt: <<n>>, or <<>> for ValueError
ParseInt(raw) == IF raw.digits THEN <<raw.n>> ELSE <<>>

\* datetime.strptime(s, "%Y-%m-%d") succeeds
ValidDate(s) == s \in {"2024-02-01", "2024-03-01", "2024-3-1", "2024-10-01"}

\* --------------------------------------------------------------- store
FreshStore == [next_id |-> 1, transactions |-> <<>>]

\* --------------------------------------------------------------- files
Absent == [kind |-> "absent", data |-> <<>>]
\* a file whose text is not JSON
Garbage == [kind |-> "garbage", data |-> <<>>]
\* a file holding only a prefix of a serialized store
Partial == [kind |-> "partial", data |-> <<>>]
\* a file open() refuses (IOError), and a file whose bytes are not UTF-8
Unreadable == [kind |-> "unreadable", data |-> <<>>]
Undecodable == [kind |-> "undecodable", data |-> <<>>]
File(doc) == [kind |-> "json", data |-> doc]

\* json.dump: None -> null, float -> its repr (nan -> NaN)
JsonOpt(o) == IF o = <<>> THEN <<"null">> ELSE <<"value", o[1]>>
JsonFloat(x) == IF x.kind = "nan" THEN <<"NaN", 0>> ELSE <<"float", x.v>>
JsonTx(tx) ==
    << <<"id", tx.id>>, <<"type", tx.type>>, <<"amount", JsonFloat(tx.amount)>>,
       <<"category", tx.category>>, <<"date", tx.date>>,
       <<"notes", JsonOpt(tx.notes)>>, <<"created_at", tx.created_at>>,
       <<"updated_at", JsonOpt(tx.updated_at)>> >>
Serialize(st) ==
    << <<"next_id", st.next_id>>,
       <<"transactions",
         [i \in 1..Len(st.transactions) |-> JsonTx(st.transactions[i])]>> >>

\* No line was typed at an id prompt.
NoId == [digits |-> FALSE, n |-> 0]

\* The operation the menu dispatched last: its name, whether it got past its
\* early returns (for delete: whether it removed a record), the line typed at
\* its id prompt, and the line typed at its amount or confirmation prompt.
Call(op, hit, tid, line) == [op |-> op, hit |-> hit, tid |-> tid, line |-> line]

\* What list_transactions printed: the limit it was called with (<<>> for
\* None) and the rows in the order printed.
Listing(limit, rows) == [limit |-> limit, rows |-> rows]

Init ==
    /\ store = FreshStore
    /\ disk \in {Absent, Garbage}
    /\ corrupt = Absent
    /\ tmp = Absent
    /\ pc = "load"
    /\ caller = "none"
    /\ exc = FALSE
    /\ clock = 0
    /\ last = Call("none", FALSE, NoId, "")
    /\ assignedIds = <<>>
    /\ epochStart = 0
    /\ diskBefore = disk
    /\ saveResult = "none"
    /\ shown = Listing(<<>>, <<>>)


\* json.load on a file save_store wrote
LoadOpt(j) == IF j[1] = "null" THEN <<>> ELSE <<j[2]>>
LoadFloat(j) == IF j[1] = "NaN" THEN NaN ELSE Num(j[2])
LoadTx(j) ==
    [id |-> j[1][2], type |-> j[2][2], amount |-> LoadFloat(j[3][2]),
     category |-> j[4][2], date |-> j[5][2], notes |-> LoadOpt(j[6][2]),
     created_at |-> j[7][2], updated_at |-> LoadOpt(j[8][2])]
Deserialize(doc) ==
    [next_id |-> doc[1][2],
     transactions |-> [i \in 1..Len(doc[2][2]) |-> LoadTx(doc[2][2][i])]]

\* ----------------------------------------------------------- load_store
\* The exceptions of open() and json.load() that `except (json.JSONDecodeError,
\* IOError)` catches: the text is not JSON, or the file cannot be opened. The
\* UnicodeDecodeError of a file that is not UTF-8 is a ValueError and is not
\* among them.
LoadErrorCaught(file) == file.kind \in {"garbage", "partial", "unreadable"}

\* main_menu calls load_store before its try block: an exception load_store
\* lets through ends the process without any save.
load_store ==
    /\ pc = "load"
    /\ IF disk.kind = "absent"
         THEN /\ store' = FreshStore
              /\ pc' = "menu"
              /\ UNCHANGED <<disk, corrupt>>
         ELSE IF disk.kind = "json"
         THEN /\ store' = Deserialize(disk.data)
              /\ pc' = "menu"
              /\ UNCHANGED <<disk, corrupt>>
         ELSE IF LoadErrorCaught(disk)
         THEN \* move the file aside, best effort, and start afresh
              /\ store' = FreshStore
              /\ pc' = "menu"
              /\ \/ disk' = Absent /\ corrupt' = disk
                 \/ UNCHANGED <<disk, corrupt>>
         ELSE /\ pc' = "load_raised"
              /\ UNCHANGED <<store, disk, corrupt>>
    /\ diskBefore' = disk'
    /\ UNCHANGED <<tmp, caller, exc, clock, last, assignedIds, epochStart,
                   saveResult, shown>>

\* ----------------------------------------------------------- save_store
\* save_store(store) returns to its caller: an operation returns to the menu
\* loop, the save of the finally block ends the process.
SaveReturns ==
    /\ saveResult' = "ok"
    /\ diskBefore' = disk'
    /\ IF caller = "final"
         THEN pc' = "done" /\ UNCHANGED <<caller, exc>>
         ELSE pc' = "menu" /\ caller' = "none" /\ UNCHANGED exc

\* save_store(store) raises: the temporary file is unlinked; out of an
\* operation the exception leaves the while loop (only KeyboardInterrupt is
\* caught) and the finally block saves once more; raised by that save, it is
\* swallowed.
SaveRaises ==
    /\ saveResult' = "failed"
    /\ tmp' = Absent
    /\ IF caller = "final"
         THEN pc' = "done" /\ UNCHANGED <<caller, exc>>
         ELSE pc' = "save" /\ caller' = "final" /\ exc' = TRUE

\* The calls of save_store before the move that can raise: NamedTemporaryFile,
\* json.dump, tmp.flush, os.fsync, tmp.close. None of them touches the data file.
SaveFailurePoints == {"create", "dump", "flush", "fsync", "close"}

\* The temporary file is written in full and shutil.move's os.rename puts it in
\* place of the data file; or one of the calls before the move raises; or
\* os.rename raises OSError (always so when the temporary directory is on
\* another filesystem) and shutil.move falls back to copying.
save_store_rename ==
    /\ pc = "save"
    /\ \/ /\ disk' = File(Serialize(store))
          /\ tmp' = Absent
          /\ SaveReturns
       \/ /\ \E failed \in SaveFailurePoints : SaveRaises
          /\ diskBefore' = disk
          /\ UNCHANGED disk
       \/ /\ tmp' = File(Serialize(store))
          /\ pc' = "copy"
          /\ saveResult' = "running"
          /\ diskBefore' = disk
          /\ UNCHANGED <<disk, caller, exc>>
    /\ UNCHANGED <<store, corrupt, clock, last, assignedIds, epochStart, shown>>

\* shutil.copy2: open(DATA_FILE, "wb") truncates the data file, or raises.
save_store_copy_open ==
    /\ pc = "copy"
    /\ \/ /\ disk' = Partial
          /\ pc' = "copy_write"
          /\ UNCHANGED <<tmp, caller, exc, saveResult>>
       \/ /\ SaveRaises
          /\ UNCHANGED disk
    /\ UNCHANGED <<store, corrupt, clock, last, assignedIds, epochStart,
                   diskBefore, shown>>

\* shutil.copy2 writes the content to the data file and shutil.move unlinks
\* the temporary file; or the write raises part way; or the write completes
\* and copystat or os.unlink raises.
save_store_copy_write ==
    /\ pc = "copy_write"
    /\ \/ /\ disk' = tmp
          /\ tmp' = Absent
          /\ SaveReturns
       \/ /\ SaveRaises
          /\ UNCHANGED <<disk, diskBefore>>
       \/ /\ disk' = tmp
          /\ SaveRaises
          /\ UNCHANGED diskBefore
    /\ UNCHANGED <<store, corrupt, clock, last, assignedIds, epochStart, shown>>

\* ------------------------------------------------------- input helpers
\* ask_choice(prompt, ("income", "expense"), default="expense"): the value
\* returned for a line, or "" when the line is refused and the prompt repeats.
ask_choice(line) ==
    LET choice == Lower(Strip(line))
    IN  IF choice = "" THEN "expense"
        ELSE IF choice \in {"income", "expense"} THEN choice
        ELSE ""

\* ask_float(): float() of the line; ValueError when the prompt repeats.
ask_float(line) == ParseFloat(Strip(line))

\* ask_date(): the value returned for a line, or "" when the prompt repeats.
ask_date(line) ==
    LET s == Strip(line)
    IN  IF s = "" THEN Today
        ELSE IF ValidDate(s) THEN s
        ELSE ""

\* `input(...).strip() or None`
OrNone(line) == IF Strip(line) = "" THEN <<>> ELSE <<Strip(line)>>

\* An operation calls save_store(store).
CallSave(op) ==
    /\ pc' = "save"
    /\ caller' = op

\* An operation returns to the menu loop without calling save_store.
ReturnToMenu == UNCHANGED <<pc, caller>>

\* ------------------------------------------------------ add_transaction
\* Mutant of AmountRejected: zero is let through.
AmountRejectedBelowZero(amt) == FloatLt0(amt)

\* `if amt <= 0: ... return`
AmountRejected(amt) == FloatLe0(amt)

\* expenses are stored negative, incomes positive
SignedAmount(ttype, amt) ==
    IF ttype = "expense" THEN FloatNeg(FloatAbs(amt)) ELSE FloatAbs(amt)

NewTx(tid, ttype, amt, category, date, notes, now) ==
    [id |-> tid, type |-> ttype, amount |-> amt, category |-> category,
     date |-> date, notes |-> notes, created_at |-> now, updated_at |-> <<>>]

\* Mutant of AppendTx: the transaction is put at the front of the list.
AppendTxAtFront(st, tx) ==
    [next_id |-> st.next_id + 1, transactions |-> <<tx>> \o st.transactions]

\* Mutant of AppendTx: the counter is not advanced.
AppendTxNoIncrement(st, tx) ==
    [next_id |-> st.next_id, transactions |-> Append(st.transactions, tx)]

\* store["transactions"].append(tx); store["next_id"] += 1
AppendTx(st, tx) ==
    [next_id |-> st.next_id + 1, transactions |-> Append(st.transactions, tx)]

\* add_transaction up to its early return
add_rejected(type_in, amt_in) ==
    /\ pc = "menu"
    /\ ask_choice(type_in) # ""
    /\ ask_float(amt_in) # ValueError
    /\ AmountRejected(ask_float(amt_in))
    /\ last' = Call("add", FALSE, NoId, amt_in)
    /\ ReturnToMenu
    /\ UNCHANGED <<store, disk, corrupt, tmp, exc, clock, assignedIds,
                   epochStart, diskBefore, saveResult, shown>>

\* add_transaction past its early return; f is <<category, date, notes>>
add_accepted(type_in, amt_in, f) ==
    LET ttype == ask_choice(type_in)
        amt == ask_float(amt_in)
        category == IF Strip(f[1]) = "" THEN "Misc" ELSE Strip(f[1])
        date == ask_date(f[2])
        notes == OrNone(f[3])
        now == clock + 1
        tid == store.next_id
    IN  /\ pc = "menu"
        /\ clock < MaxClock
        /\ ttype # ""
        /\ amt # ValueError
        /\ ~AmountRejected(amt)
        /\ date # ""
        /\ clock' = now
        /\ store' = AppendTx(store, NewTx(tid, ttype, SignedAmount(ttype, amt),
                                          category, date, notes, now))
        /\ assignedIds' = Append(assignedIds, tid)
        /\ last' = Call("add", TRUE, NoId, amt_in)
        /\ CallSave("add")
        /\ UNCHANGED <<disk, corrupt, tmp, exc, epochStart, diskBefore, saveResult, shown>>

add_transaction ==
    \E type_in \in TypeInputs, amt_in \in AmountInputs :
        \/ add_rejected(type_in, amt_in)
        \/ \E f \in FieldInputs : add_accepted(type_in, amt_in, f)

\* ----------------------------------------------------- view_transaction
\* next((i for i, x in enumerate(txs) if x["id"] == tid), None): the index of
\* the first match, 0 for None.
FindIndex(txs, tid) ==
    IF \E i \in 1..Len(txs) : txs[i].id = tid
      THEN CHOOSE i \in 1..Len(txs) :
             /\ txs[i].id = tid
             /\ \A j \in 1..(i - 1) : txs[j].id # tid
      ELSE 0

\* The index an id prompt's line leads to: 0 when int() rejects the line or
\* no transaction has the id.
Lookup(txs, raw) ==
    IF ParseInt(raw) = <<>> THEN 0 ELSE FindIndex(txs, ParseInt(raw)[1])

view_with(raw) ==
    /\ pc = "menu"
    /\ last' = Call("view", Lookup(store.transactions, raw) # 0, raw, "")
    /\ ReturnToMenu
    /\ UNCHANGED <<store, disk, corrupt, tmp, exc, clock, assignedIds,
                   epochStart, diskBefore, saveResult, shown>>

view_transaction == \E raw \in IdInputs : view_with(raw)

\* --------------------------------------------------- update_transaction
\* new_type after `if new_type not in ("", "income", "expense"): new_type = ""`
NewType(line) ==
    LET t == Lower(Strip(line))
    IN  IF t \in {"", "income", "expense"} THEN t ELSE ""

\* amt_val: the float typed, or None (NoAmount) for a blank line, a line
\* float() rejects, or a value <= 0
AmtVal(line) ==
    LET s == Strip(line)
    IN  IF s = "" THEN NoAmount
        ELSE IF ParseFloat(s) = ValueError THEN NoAmount
        ELSE IF FloatLe0(ParseFloat(s)) THEN NoAmount
        ELSE ParseFloat(s)

\* date after `if date: strptime ... except ValueError: date = ""`
NewDate(line) ==
    LET d == Strip(line)
    IN  IF d # "" /\ ~ValidDate(d) THEN "" ELSE d

FinalType(tx, new_type) == IF new_type = "" THEN tx.type ELSE new_type

FinalAmount(tx, new_type, amt_val) ==
    LET final_type == FinalType(tx, new_type)
        supplied == IF amt_val # NoAmount
                      THEN SignedAmount(final_type, amt_val)
                      ELSE tx.amount
    IN  IF new_type # "" /\ amt_val = NoAmount /\ tx.type # new_type
          THEN FloatNeg(tx.amount)
          ELSE supplied

\* Mutant of UpdatedTx: created_at is stamped too.
UpdatedTxRestampsCreation(tx, new_type, amt_val, category, date, notes, now) ==
    [tx EXCEPT !.type = FinalType(tx, new_type),
               !.amount = FinalAmount(tx, new_type, amt_val),
               !.category = IF category = "" THEN tx.category ELSE category,
               !.date = IF date = "" THEN tx.date ELSE date,
               !.notes = IF notes = "" THEN tx.notes ELSE <<notes>>,
               !.created_at = now,
               !.updated_at = <<now>>]

\* Mutant of UpdatedTx: updated_at is set only when a field changed.
UpdatedTxStampsOnChange(tx, new_type, amt_val, category, date, notes, now) ==
    LET new == [tx EXCEPT !.type = FinalType(tx, new_type),
                          !.amount = FinalAmount(tx, new_type, amt_val),
                          !.category = IF category = "" THEN tx.category ELSE category,
                          !.date = IF date = "" THEN tx.date ELSE date,
                          !.notes = IF notes = "" THEN tx.notes ELSE <<notes>>]
    IN  IF new = tx THEN tx ELSE [new EXCEPT !.updated_at = <<now>>]

\* tx.update({...})
UpdatedTx(tx, new_type, amt_val, category, date, notes, now) ==
    [tx EXCEPT !.type = FinalType(tx, new_type),
               !.amount = FinalAmount(tx, new_type, amt_val),
               !.category = IF category = "" THEN tx.category ELSE category,
               !.date = IF date = "" THEN tx.date ELSE date,
               !.notes = IF notes = "" THEN tx.notes ELSE <<notes>>,
               !.updated_at = <<now>>]

\* update_transaction up to its early returns
update_miss(raw) ==
    /\ pc = "menu"
    /\ Lookup(store.transactions, raw) = 0
    /\ last' = Call("update", FALSE, raw, "")
    /\ ReturnToMenu
    /\ UNCHANGED <<store, disk, corrupt, tmp, exc, clock, assignedIds,
                   epochStart, diskBefore, saveResult, shown>>

\* update_transaction past its early returns; f is <<category, date, notes>>
update_found(raw, type_in, amt_in, f) ==
    LET idx == Lookup(store.transactions, raw)
    IN  /\ pc = "menu"
        /\ clock < MaxClock
        /\ idx # 0
        /\ clock' = clock + 1
        /\ store' = [store EXCEPT !.transactions[idx] =
               UpdatedTx(@, NewType(type_in), AmtVal(amt_in), Strip(f[1]),
                         NewDate(f[2]), Strip(f[3]), clock + 1)]
        /\ last' = Call("update", TRUE, raw, "")
        /\ CallSave("update")
        /\ UNCHANGED <<disk, corrupt, tmp, exc, assignedIds, epochStart,
                       diskBefore, saveResult, shown>>

update_transaction ==
    \E raw \in IdInputs :
        \/ update_miss(raw)
        \/ \E type_in \in TypeInputs, amt_in \in AmountInputs, f \in FieldInputs :
              update_found(raw, type_in, amt_in, f)

\* --------------------------------------------------- delete_transaction
\* [x for x in store["transactions"] if x["id"] != tid]
RemoveTx(txs, tid) == SelectSeq(txs, LAMBDA x : x.id # tid)

\* Mutants of DeleteSaves: the test is inverted; save_store is always called.
DeleteSavesInverted(before, after) == before = after
DeleteSavesAlways(before, after) == TRUE

\* `if before == after: ... else: save_store(store)`
DeleteSaves(before, after) == before # after

delete_with(raw) ==
    /\ pc = "menu"
    /\ IF ParseInt(raw) = <<>>
         THEN /\ last' = Call("delete", FALSE, raw, "")
              /\ ReturnToMenu
              /\ UNCHANGED store
         ELSE LET kept == RemoveTx(store.transactions, ParseInt(raw)[1])
              IN  /\ store' = [store EXCEPT !.transactions = kept]
                  /\ last' = Call("delete", Len(kept) # Len(store.transactions), raw, "")
                  /\ IF DeleteSaves(Len(store.transactions), Len(kept))
                       THEN CallSave("delete")
                       ELSE ReturnToMenu
    /\ UNCHANGED <<disk, corrupt, tmp, exc, clock, assignedIds, epochStart,
                   diskBefore, saveResult, shown>>

delete_transaction == \E raw \in IdInputs : delete_with(raw)

\* ---------------------------------------------------------- reset_store
\* Mutant of Confirmed: the comparison ignores case.
ConfirmedIgnoringCase(line) == Lower(Strip(line)) = "yes"

\* `ok = input(...).strip()`, `if ok == "YES":`
Confirmed(line) == Strip(line) = "YES"

\* Mutant of ClearedStore: the counter is reset, the list is not cleared.
ClearedStoreKeepsTransactions(st) == [st EXCEPT !.next_id = 1]

\* store["transactions"].clear(); store["next_id"] = 1
ClearedStore(st) == [st EXCEPT !.transactions = <<>>, !.next_id = 1]

reset_with(line) ==
    /\ pc = "menu"
    /\ IF Confirmed(line)
         THEN /\ store' = ClearedStore(store)
              /\ epochStart' = Len(assignedIds)
              /\ last' = Call("reset", TRUE, NoId, line)
              /\ CallSave("reset")
         ELSE /\ last' = Call("reset", FALSE, NoId, line)
              /\ ReturnToMenu
              /\ UNCHANGED <<store, epochStart>>
    /\ UNCHANGED <<disk, corrupt, tmp, exc, clock, assignedIds, diskBefore,
                   saveResult, shown>>

reset_store == \E line \in ConfirmInputs : reset_with(line)

\* ------------------------------------------------------------ main_menu
\* choice "0": break, then the finally block saves
main_menu_exit ==
    /\ pc = "menu"
    /\ last' = Call("exit", FALSE, NoId, "")
    /\ CallSave("final")
    /\ UNCHANGED <<store, disk, corrupt, tmp, exc, clock, assignedIds,
                   epochStart, diskBefore, saveResult, shown>>

\* Mutant of main_menu_interrupt: the process ends without the save.
main_menu_interrupt_unsaved ==
    /\ pc = "menu"
    /\ last' = Call("interrupt", FALSE, NoId, "")
    /\ pc' = "done"
    /\ UNCHANGED <<store, disk, corrupt, tmp, caller, exc, clock, assignedIds,
                   epochStart, diskBefore, saveResult, shown>>

\* Ctrl-C at the menu prompt: except KeyboardInterrupt, then the finally block
main_menu_interrupt ==
    /\ pc = "menu"
    /\ last' = Call("interrupt", FALSE, NoId, "")
    /\ CallSave("final")
    /\ UNCHANGED <<store, disk, corrupt, tmp, exc, clock, assignedIds,
                   epochStart, diskBefore, saveResult, shown>>

Next ==
    \/ load_store
    \/ add_transaction
    \/ view_transaction
    \/ update_transaction
    \/ delete_transaction
    \/ reset_store
    \/ main_menu_exit
    \/ main_menu_interrupt
    \/ save_store_rename
    \/ save_store_copy_open
    \/ save_store_copy_write

Spec == Init /\ [][Next]_vars


\* The same run of main_menu() in which the user never picks choice 9.
NextNoReset ==
    \/ load_store
    \/ add_transaction
    \/ view_transaction
    \/ update_transaction
    \/ delete_transaction
    \/ main_menu_exit
    \/ main_menu_interrupt
    \/ save_store_rename
    \/ save_store_copy_open
    \/ save_store_copy_write

SpecNoReset == Init /\ [][NextNoReset]_vars

\* ----------------------------------------------------- list_transactions
\* The order of Python's str comparison (code points, left to right) on the
\* date strings of this model: "2024-3-1" is above "2024-10-01".
StrRank(s) ==
    CASE s = "2024-02-01" -> 1
      [] s = "2024-03-01" -> 2
      [] s = "2024-10-01" -> 3
      [] s = "2024-3-1" -> 4
      [] OTHER -> 0

\* key=lambda r: (r["date"], r["id"]): tuple a is below tuple b
KeyLess(a, b) ==
    \/ StrRank(a.date) < StrRank(b.date)
    \/ (a.date = b.date /\ a.id < b.id)

\* sorted(txs, key=..., reverse=True): descending, and stable (records with
\* equal keys keep their order).
InsertDesc(x, seq) ==
    LET k == Cardinality({ i \in 1..Len(seq) : ~KeyLess(seq[i], x) })
    IN  SubSeq(seq, 1, k) \o <<x>> \o SubSeq(seq, k + 1, Len(seq))
RECURSIVE SortedDesc(_)
SortedDesc(txs) ==
    IF txs = <<>> THEN <<>>
    ELSE InsertDesc(txs[Len(txs)], SortedDesc(SubSeq(txs, 1, Len(txs) - 1)))

\* txs[:n] for n >= 0
Slice(txs, n) == SubSeq(txs, 1, IF n < Len(txs) THEN n ELSE Len(txs))

\* The rows list_transactions(store, limit) prints; limit is <<>> for None.
\* `if limit:` is false for None and for 0.
ListRows(st, limit) ==
    LET txs == SortedDesc(st.transactions)
    IN  IF limit # <<>> /\ limit[1] # 0 THEN Slice(txs, limit[1]) ELSE txs

\* "8) Show latest 5"
LatestLimit == 5

\* The limits list_transactions is called with: None (choice "2"), 5 (choice
\* "8"), and smaller caps.
ListLimits == {<<>>, <<0>>, <<1>>, <<2>>, <<LatestLimit>>}

list_with(limit) ==
    /\ pc = "menu"
    /\ shown' = Listing(limit, ListRows(store, limit))
    /\ last' = Call("list", FALSE, NoId, "")
    /\ ReturnToMenu
    /\ UNCHANGED <<store, disk, corrupt, tmp, exc, clock, assignedIds,
                   epochStart, diskBefore, saveResult>>

list_transactions == \E limit \in ListLimits : list_with(limit)

\* A store is listed at most MaxListLen transactions long.
MaxListLen == 3

\* Dates typed at add_transaction's date prompt that strptime accepts.
ListDates == {"2024-03-01", "2024-3-1", "2024-10-01"}

\* The store after one add per date of ds, saved by an earlier run.
ListStore(ds) ==
    [next_id |-> Len(ds) + 1,
     transactions |->
        [i \in 1..Len(ds) |->
            NewTx(i, "expense", SignedAmount("expense", ask_float("5")),
                  "Misc", ask_date(ds[i]), <<>>, 0)]]
ListStores ==
    { ListStore(ds) : ds \in UNION { [1..n -> ListDates] : n \in 0..MaxListLen } }

InitList ==
    /\ store = FreshStore
    /\ disk \in { File(Serialize(st)) : st \in ListStores }
    /\ corrupt = Absent
    /\ tmp = Absent
    /\ pc = "load"
    /\ caller = "none"
    /\ exc = FALSE
    /\ clock = 0
    /\ last = Call("none", FALSE, NoId, "")
    /\ assignedIds = <<>>
    /\ epochStart = 0
    /\ diskBefore = disk
    /\ saveResult = "none"
    /\ shown = Listing(<<>>, <<>>)

\* Runs in which the user lists what was loaded.
NextList ==
    \/ load_store
    \/ list_transactions

SpecList == InitList /\ [][NextList]_vars

\* --------------------------------------- a run on a file found at startup
\* Stores an earlier run of main_menu() saved: an expense and an income, added
\* with the Amount lines a1 and a2 before this run's first clock reading.
LeftAmounts == {"5", "nan"}
LeftStore(a1, a2) ==
    AppendTx(
        AppendTx(FreshStore,
                 NewTx(1, "expense", SignedAmount("expense", ask_float(a1)),
                       "Misc", Today, <<>>, 0)),
        NewTx(2, "income", SignedAmount("income", ask_float(a2)),
              "Food", "2024-03-01", <<"memo">>, 0))
LeftStores == { LeftStore(a1, a2) : a1, a2 \in LeftAmounts }

\* The data file main_menu() finds: one save_store wrote, one open() refuses,
\* or one that is not UTF-8.
LeftFiles ==
    {Unreadable, Undecodable} \cup { File(Serialize(st)) : st \in LeftStores }

InitLoaded ==
    /\ store = FreshStore
    /\ disk \in LeftFiles
    /\ corrupt = Absent
    /\ tmp = Absent
    /\ pc = "load"
    /\ caller = "none"
    /\ exc = FALSE
    /\ clock = 0
    /\ last = Call("none", FALSE, NoId, "")
    /\ assignedIds = <<>>
    /\ epochStart = 0
    /\ diskBefore = disk
    /\ saveResult = "none"
    /\ shown = Listing(<<>>, <<>>)

\* The process has ended and main_menu() is started again on the files it
\* left; `store` names the dict of the ended process until load_store returns.
main_menu_again ==
    /\ pc \in {"done", "load_raised"}
    /\ pc' = "load"
    /\ caller' = "none"
    /\ exc' = FALSE
    /\ last' = Call("none", FALSE, NoId, "")
    /\ assignedIds' = <<>>
    /\ epochStart' = 0
    /\ diskBefore' = disk
    /\ UNCHANGED <<store, disk, corrupt, tmp, clock, saveResult, shown>>

\* Runs in which the user looks at, updates and deletes what was loaded.
NextLoaded ==
    \/ load_store
    \/ main_menu_again
    \/ view_transaction
    \/ update_transaction
    \/ delete_transaction
    \/ main_menu_exit
    \/ main_menu_interrupt
    \/ save_store_rename
    \/ save_store_copy_open
    \/ save_store_copy_write

SpecLoaded == InitLoaded /\ [][NextLoaded]_vars

\* =================================================================== claims
Txs == store.transactions

\* The menu loop has just dispatched operation `op` (every operation starts
\* at the menu prompt and records itself in `last`).
Dispatched(op) == pc = "menu" /\ last'.op = op

\* The ids in `log` from position `from` on are pairwise distinct and below n.
DistinctBelow(log, from, n) ==
    /\ \A i \in (from + 1)..Len(log) : log[i] < n
    /\ \A i, j \in (from + 1)..Len(log) : i # j => log[i] # log[j]

\* C1 -- Sign invariant: every transaction in the store has amount < 0 when
\* its type is expense and amount > 0 when its type is income.
C1_SignInvariant ==
    \A i \in 1..Len(Txs) :
        /\ Txs[i].type = "expense" => FloatLt0(Txs[i].amount)
        /\ Txs[i].type = "income" => FloatGt0(Txs[i].amount)

\* C2 -- Id monotonicity (no reset): every add puts a transaction with
\* id = the current next_id at the end of the list and increments next_id by
\* one; all ids assigned so far are pairwise distinct and below next_id,
\* those of deleted transactions included.
C2_IdMonotonicity ==
    [][ /\ DistinctBelow(assignedIds', 0, store'.next_id)
        /\ (Dispatched("add") /\ last'.hit) =>
              /\ Len(store'.transactions) = Len(Txs) + 1
              /\ store'.transactions[Len(Txs) + 1].id = store.next_id
              /\ store'.next_id = store.next_id + 1
              /\ assignedIds' = Append(assignedIds, store.next_id)
        /\ Dispatched("delete") => store'.next_id = store.next_id
      ]_vars

\* C2 witness: two adds with a delete of the first in between.
C2_Witness ==
    /\ assignedIds = <<1, 2>>
    /\ Len(Txs) = 1
    /\ Txs[1].id = 2
    /\ store.next_id = 3

\* C3 (as stated) -- next_id is greater than every id that is or ever was in
\* transactions, and no id is ever assigned to two created transactions.
C3_NextIdAboveEveryIdEver == DistinctBelow(assignedIds, 0, store.next_id)

\* C3 (amended) -- next_id is greater than every id now in transactions and
\* than every id assigned since the last confirmed reset, no id is assigned
\* twice between two confirmed resets, and next_id decreases only in a
\* confirmed reset, which sets it to 1.
C3_NextIdAboveIdsSinceReset ==
    [][ /\ DistinctBelow(assignedIds', epochStart', store'.next_id)
        /\ \A i \in 1..Len(store'.transactions) :
              store'.transactions[i].id < store'.next_id
        /\ store'.next_id < store.next_id =>
              /\ Dispatched("reset")
              /\ last'.line \in {"YES", " YES "}
              /\ store'.next_id = 1
      ]_vars

\* C3 witness: an id assigned before a confirmed reset is assigned again.
C3_Witness ==
    /\ epochStart >= 1
    /\ Len(assignedIds) > epochStart
    /\ assignedIds[1] = assignedIds[epochStart + 1]
    /\ Len(Txs) = 1

\* C4 -- Id uniqueness: no two transactions in the store have the same id.
C4_IdUniqueness ==
    \A i, j \in 1..Len(Txs) : i # j => Txs[i].id # Txs[j].id

\* C4 witness: two transactions in the store, saved, back at the menu.
C4_Witness ==
    /\ pc = "menu"
    /\ Len(Txs) = 2
    /\ Txs[1].id = 1
    /\ Txs[2].id = 2


\* C5 -- Atomic save: a failed save leaves the data file exactly as it was
\* when the save began, and the data file never holds a partially written
\* store.
C5_AtomicSave ==
    /\ saveResult = "failed" => disk = diskBefore
    /\ disk.kind # "partial"

\* C6 -- Disk follows memory: when a mutating operation has returned
\* normally, and at every menu prompt after a save that succeeded, the data
\* file holds exactly the in-memory store.
C6_DiskFollowsMemory ==
    (/\ pc = "menu"
     /\ \/ saveResult = "ok"
        \/ (last.op \in {"add", "update", "delete", "reset"} /\ last.hit))
        => disk = File(Serialize(store))

\* C6 witness: back at the menu after a delete that removed one of two records.
C6_Witness ==
    /\ pc = "menu"
    /\ last.op = "delete"
    /\ last.hit
    /\ Len(Txs) = 1
    /\ disk = File(Serialize(store))

\* What reset_store does on a confirmed and on an unconfirmed line.
ResetClearsAndSaves ==
    /\ store'.transactions = <<>>
    /\ store'.next_id = 1
    /\ pc' = "save"
    /\ caller' = "reset"
ResetLeavesAll ==
    /\ store' = store
    /\ disk' = disk
    /\ pc' = "menu"

\* C7 (as stated) -- reset clears, resets next_id to 1 and saves if and only
\* if the line typed is exactly "YES"; any other line leaves the store and the
\* data file unchanged without a save; only a confirmed reset lowers next_id.
C7_ResetOnlyOnExactYES ==
    [][ /\ Dispatched("reset") =>
              IF last'.line = "YES" THEN ResetClearsAndSaves ELSE ResetLeavesAll
        /\ store'.next_id < store.next_id => Dispatched("reset")
      ]_vars

\* C7 (amended) -- reset clears, resets next_id to 1 and saves if and only if
\* the line typed, with leading and trailing whitespace removed, is exactly
\* "YES"; any other line (including "yes") leaves the store and the data file
\* unchanged without a save; only a confirmed reset lowers next_id.
C7_ResetOnlyOnStrippedYES ==
    [][ /\ Dispatched("reset") =>
              IF last'.line \in {"YES", " YES "}
                THEN ResetClearsAndSaves ELSE ResetLeavesAll
        /\ store'.next_id < store.next_id => Dispatched("reset")
      ]_vars

\* C7 witness: "YES" typed with surrounding blanks has emptied a store that
\* held a transaction, and the empty store is on disk.
C7_Witness ==
    /\ pc = "menu"
    /\ last.op = "reset"
    /\ last.line = " YES "
    /\ store = FreshStore
    /\ Len(assignedIds) >= 1
    /\ disk = File(Serialize(FreshStore))

\* The line typed at the id prompt is a number that no transaction has as id.
UnknownId(raw) == raw.digits /\ \A i \in 1..Len(Txs) : Txs[i].id # raw.n

\* C8 -- Lookup miss: view, update and delete with an id no transaction has
\* leave the store and the data file unchanged, do not call save_store and
\* raise nothing; delete calls save_store only when it removed a record.
C8_LookupMiss ==
    [][ /\ (/\ pc = "menu"
            /\ last'.op \in {"view", "update", "delete"}
            /\ UnknownId(last'.tid))
              => /\ store' = store
                 /\ disk' = disk
                 /\ pc' = "menu"
                 /\ UNCHANGED <<exc, saveResult, tmp>>
        /\ (Dispatched("delete") /\ pc' = "save")
              => Len(store'.transactions) < Len(Txs)
      ]_vars

\* C8 witness: an update with an unknown id on a store that holds a record.
C8_Witness ==
    /\ pc = "menu"
    /\ last.op = "update"
    /\ UnknownId(last.tid)
    /\ Len(Txs) >= 1

\* C9 -- Validation rejection on create: add with an amount <= 0 appends
\* nothing, leaves next_id alone and does not call save_store.
C9_AddRejectsNonPositive ==
    [][ (Dispatched("add") /\ last'.line \in {"0", "-5"})
          => /\ store' = store
             /\ disk' = disk
             /\ pc' = "menu"
             /\ UNCHANGED <<exc, saveResult, tmp>>
      ]_vars

\* C9 witness: an add with amount 0 came back to the menu of a store that
\* holds a record.
C9_Witness ==
    /\ pc = "menu"
    /\ last.op = "add"
    /\ last.line = "0"
    /\ Len(Txs) >= 1


\* The type and the amount a line supplies in the sense of C10: a valid type
\* ("" when the line is blank or no type), a valid amount > 0 (0 when the line
\* is blank, no number, or not > 0).
SuppliedType(line) ==
    CASE line = "income" -> "income"
      [] line = "EXPENSE" -> "expense"
      [] OTHER -> ""
SuppliedAmount(line) ==
    CASE line = "5" -> 5
      [] line = "2" -> 2
      [] OTHER -> 0

\* The amount C10 prescribes for a transaction `old` updated with type t and
\* amount a.
RuleAmount(old, t, a) ==
    LET final_type == IF t # "" THEN t ELSE old.type
    IN  IF a > 0
          THEN IF final_type = "expense" THEN Num(-a) ELSE Num(a)
          ELSE IF t # "" /\ t # old.type
                 THEN IF old.amount.kind = "num" THEN Num(-old.amount.v) ELSE old.amount
                 ELSE old.amount

\* C10 -- Update amount rule: final type = the supplied valid type, else the
\* old type; final amount = (a) the supplied valid amount > 0 signed by the
\* final type, (b) the negated old amount when a valid type different from the
\* old one is supplied without a valid amount, (c) the old amount otherwise.
C10_UpdateAmountRule ==
    [][ \A type_in \in TypeInputs, amt_in \in AmountInputs, f \in FieldInputs :
          (/\ Dispatched("update")
           /\ last'.hit
           /\ update_found(last'.tid, type_in, amt_in, f))
            => LET idx == CHOOSE i \in 1..Len(Txs) : Txs[i].id = last'.tid.n
                   old == Txs[idx]
                   new == store'.transactions[idx]
                   t == SuppliedType(type_in)
                   a == SuppliedAmount(amt_in)
               IN  /\ new.type = (IF t # "" THEN t ELSE old.type)
                   /\ new.amount = RuleAmount(old, t, a)
      ]_vars

\* The content of a data file that load_store could not use is still there,
\* under the data file's name or under the quarantine name.
Kept(d, c) ==
    d.kind \in {"garbage", "unreadable"} \/ c.kind \in {"garbage", "unreadable"}

\* C11 -- Corrupt load: on a data file that exists but cannot be parsed or
\* read, load_store returns a fresh store and the file's content is then under
\* the quarantine name; neither the load nor any later save loses that content.
C11_CorruptLoad ==
    [][ /\ (pc = "load" /\ disk.kind \notin {"absent", "json"})
              => /\ pc' = "menu"
                 /\ store' = FreshStore
                 /\ corrupt' = disk
        /\ Kept(disk, corrupt) => Kept(disk', corrupt')
      ]_vars

\* C12 -- Load never fails: whatever the data file is (absent, valid,
\* unparsable, unreadable, undecodable) and however the quarantine rename
\* ends, load_store returns a store and no error propagates out of it.
C12_LoadNeverFails == pc # "load_raised"

\* The operations that change the store and call save_store.
Mutating == {"add", "update", "delete", "reset"}

\* C13 -- Return to menu: after every rejection (a non-positive amount, an id
\* that is no number or that no transaction has, an unconfirmed reset) and
\* after a save_store failure inside add, update, delete or reset, the shell is
\* at the menu prompt again and goes on taking choices.
C13_ReturnToMenu ==
    [][ /\ (pc = "menu" /\ last'.op \in Mutating /\ ~last'.hit) => pc' = "menu"
        /\ (caller \in Mutating /\ saveResult' = "failed") => pc' = "menu"
      ]_vars

\* C14 -- Final save: however the menu loop ends (choice "0", Ctrl-C, or an
\* error coming out of an operation), save_store is called once on the
\* in-memory store before the process ends, the process ends only out of that
\* call, and a failure of that call is swallowed.
C14_FinalSave ==
    [][ /\ (\/ (pc = "menu" /\ last'.op \in {"exit", "interrupt"})
            \/ (caller \in Mutating /\ saveResult' = "failed"))
              => /\ pc' = "save"
                 /\ caller' = "final"
                 /\ store' = store
        /\ (pc # "done" /\ pc' = "done")
              => /\ caller = "final"
                 /\ store' = store
                 /\ saveResult' \in {"ok", "failed"}
                 /\ saveResult' = "ok" => disk' = File(Serialize(store))
        /\ caller = "final"
              => /\ pc' # "save"
                 /\ caller' = "final"
                 /\ exc' = exc
                 /\ saveResult' = "failed" => pc' = "done"
      ]_vars

\* C14 witness: a save failed inside an add, the save of the finally block
\* failed too, and the process has ended.
C14_Witness ==
    /\ pc = "done"
    /\ last.op = "add"
    /\ exc
    /\ saveResult = "failed"
    /\ Len(Txs) = 1

\* Python's == on floats (nan equals nothing, itself included), on
\* transactions and on stores.
FloatEq(x, y) == x.kind = "num" /\ y.kind = "num" /\ x.v = y.v
TxEq(a, b) ==
    /\ a.id = b.id
    /\ a.type = b.type
    /\ FloatEq(a.amount, b.amount)
    /\ a.category = b.category
    /\ a.date = b.date
    /\ a.notes = b.notes
    /\ a.created_at = b.created_at
    /\ a.updated_at = b.updated_at
StoreEq(a, b) ==
    /\ a.next_id = b.next_id
    /\ Len(a.transactions) = Len(b.transactions)
    /\ \A i \in 1..Len(a.transactions) : TxEq(a.transactions[i], b.transactions[i])

\* C15 -- Round-trip: when save_store has succeeded on a store and load_store
\* then reads the data file, the store it returns equals the saved one: same
\* next_id, same transactions in the same order, every field equal.
C15_RoundTrip ==
    [][ (/\ pc = "load"
         /\ saveResult = "ok"
         /\ disk = File(Serialize(store)))
          => /\ pc' = "menu"
             /\ StoreEq(store', store)
      ]_vars

\* datetime.strptime(s, "%Y-%m-%d"): the calendar date <<year, month, day>>
CalendarDate(s) ==
    CASE s = "2024-02-01" -> <<2024, 2, 1>>
      [] s = "2024-03-01" -> <<2024, 3, 1>>
      [] s = "2024-3-1" -> <<2024, 3, 1>>
      [] s = "2024-10-01" -> <<2024, 10, 1>>
      [] OTHER -> <<0, 0, 0>>

\* Calendar date d is later than calendar date e.
Later(d, e) ==
    \/ d[1] > e[1]
    \/ (d[1] = e[1] /\ d[2] > e[2])
    \/ (d[1] = e[1] /\ d[2] = e[2] /\ d[3] > e[3])

\* Transaction a is listed before transaction b: later date first, and on the
\* same date the higher id first.
ListedBefore(a, b) ==
    \/ Later(CalendarDate(a.date), CalendarDate(b.date))
    \/ (CalendarDate(a.date) = CalendarDate(b.date) /\ a.id > b.id)

\* C16 -- List ordering: list_transactions shows the transactions by date
\* descending, ties by id descending; with a cap N exactly the first
\* min(N, number of transactions) of that order, without a cap all of them;
\* the store is not reordered or changed.
C16_ListOrdering ==
    [][ Dispatched("list") =>
          LET rows == shown'.rows
              all == { Txs[i] : i \in 1..Len(Txs) }
              want == IF shown'.limit = <<>> \/ shown'.limit[1] > Len(Txs)
                        THEN Len(Txs) ELSE shown'.limit[1]
          IN  /\ store' = store
              /\ Len(rows) = want
              /\ \A i \in 1..Len(rows) : rows[i] \in all
              /\ \A i, j \in 1..Len(rows) : i < j => ListedBefore(rows[i], rows[j])
              /\ \A i \in 1..Len(rows) : \A t \in all :
                    (\A j \in 1..Len(rows) : rows[j] # t) => ListedBefore(rows[i], t)
      ]_vars

\* C17 -- Unsaved state retained and retried: when save_store fails inside
\* add, update, delete or reset, the in-memory store keeps the mutation (after
\* an add the new transaction is there and next_id is one above its id) while
\* the data file keeps the content it had before that save; and when the save
\* at shutdown then succeeds, the data file equals that in-memory store.
C17_UnsavedRetained ==
    [][ /\ (caller \in Mutating /\ saveResult' = "failed")
              => /\ store' = store
                 /\ disk' = diskBefore'
                 /\ caller = "add"
                       => /\ Txs # <<>>
                          /\ Txs[Len(Txs)].id = assignedIds[Len(assignedIds)]
                          /\ store.next_id = Txs[Len(Txs)].id + 1
                 /\ caller = "reset" => store = FreshStore
        /\ (caller = "final" /\ exc /\ saveResult' = "ok")
              => /\ store' = store
                 /\ disk' = File(Serialize(store))
      ]_vars

\* The update step that found its transaction, and the index of that
\* transaction in the list.
UpdateHit == Dispatched("update") /\ last'.hit
Target == CHOOSE i \in 1..Len(Txs) : Txs[i].id = last'.tid.n

\* C18 -- updated_at lifecycle: a transaction's updated_at is null when it is
\* created and stays null until an update is applied to its id; every update
\* of an existing id sets it to a timestamp, also when every line typed is
\* blank or invalid, and such an update still calls save_store.
C18_UpdatedAtLifecycle ==
    [][ /\ (Dispatched("add") /\ last'.hit)
              => store'.transactions[Len(store'.transactions)].updated_at = <<>>
        /\ \A i \in 1..Len(Txs) : \A j \in 1..Len(store'.transactions) :
              (/\ Txs[i].id = store'.transactions[j].id
               /\ ~(UpdateHit /\ i = Target))
                => store'.transactions[j].updated_at = Txs[i].updated_at
        /\ UpdateHit
              => /\ store'.transactions[Target].updated_at = <<clock'>>
                 /\ pc' = "save"
                 /\ caller' = "update"
        /\ \A type_in \in {"", "bogus"}, amt_in \in {"", "abc", "0", "-5"},
              f \in {<<"", "", "">>} :
              (UpdateHit /\ update_found(last'.tid, type_in, amt_in, f))
                => /\ store'.transactions[Target] =
                        [Txs[Target] EXCEPT !.updated_at = <<clock'>>]
                   /\ pc' = "save"
      ]_vars

\* C18 witness: a transaction added with the defaults was updated and only
\* its updated_at differs from what the add stored; the save is under way.
C18_Witness ==
    /\ caller = "update"
    /\ pc = "save"
    /\ Len(Txs) = 1
    /\ Txs[1] = [NewTx(1, "expense", Num(-5), "Misc", Today, <<>>, 1)
                    EXCEPT !.updated_at = <<2>>]

\* C19 -- Update frame: an update of an existing id changes nothing but that
\* transaction's type, amount, category, date, notes and updated_at: its id
\* and created_at, next_id, the number and order of the transactions and
\* every field of every other transaction stay as they were.
C19_UpdateFrame ==
    [][ UpdateHit =>
          LET old == Txs[Target]
              new == store'.transactions[Target]
          IN  /\ store'.next_id = store.next_id
              /\ Len(store'.transactions) = Len(Txs)
              /\ \A i \in 1..Len(Txs) : i # Target => store'.transactions[i] = Txs[i]
              /\ new.id = old.id
              /\ new.created_at = old.created_at
              /\ DOMAIN new = DOMAIN old
      ]_vars

\* C19 witness: of the two transactions loaded, the second was updated to an
\* expense of 2 with a new category, date and note; the first is as loaded.
C19_Witness ==
    /\ caller = "update"
    /\ pc = "save"
    /\ store.next_id = 3
    /\ Len(Txs) = 2
    /\ Txs[1] = LeftStore("5", "5").transactions[1]
    /\ Txs[2] = [id |-> 2, type |-> "expense", amount |-> Num(-2),
                 category |-> "Food", date |-> "2024-03-01", notes |-> <<"memo">>,
                 created_at |-> 0, updated_at |-> <<1>>]

\* C20 -- Ids in range and in order: every transaction in the store has
\* 1 <= id < next_id, and the list is in strictly increasing id order.
C20_IdsInRangeAndOrder ==
    /\ \A i \in 1..Len(Txs) : 1 <= Txs[i].id /\ Txs[i].id < store.next_id
    /\ \A i, j \in 1..Len(Txs) : i < j => Txs[i].id < Txs[j].id

\* C20 witness: the process has ended on a store of two transactions added
\* one after the other.
C20_Witness ==
    /\ pc = "done"
    /\ Len(Txs) = 2
    /\ Txs[1].id = 1
    /\ Txs[2].id = 2
    /\ store.next_id = 3

====
